---- MODULE Spec2Model ----
(***************************************************************************)
(* Model of the filter engine of the `money` crate (rust-money):           *)
(*   - NaiveDateFilter   (src/rust-money/src/filter/date.rs)               *)
(*   - CategoryFilter    (src/rust-money/src/filter/category.rs)           *)
(*   - Filter            (src/rust-money/src/filter/mod.rs)                *)
(* The program is single threaded: every action below is one whole call of *)
(* a public method.  `call` records the method and its arguments, `before` *)
(* the value of the filter when the call started and `ret` what the call   *)
(* returned.                                                               *)
(***************************************************************************)
EXTENDS Integers, Sequences, FiniteSets, TLC

VARIABLES visibility, date_option, state_option, resource_option, tag_option,
          call, before, ret,
          account_tags, account_resources, account_orders, account_before

\* account_*: the fields of the Account (registered tags and resources,
\* orders); account_before: their values when the last call started.
account_vars ==
    <<account_tags, account_resources, account_orders, account_before>>

vars == <<visibility, date_option, state_option, resource_option, tag_option,
          call, before, ret,
          account_tags, account_resources, account_orders, account_before>>

(***************************************************************************)
(* Bounds of the model.                                                    *)
(***************************************************************************)
\* NaiveDateFilter is exercised with the days 1..MaxDay.
MaxDay == 3
\* A CategoryFilter list grows to at most MaxItems entries.
MaxItems == 2
\* Where set is left out (SpecCategoryEdit) the list grows to MaxLen entries.
MaxLen == 3
\* apply_filter is given lists of at most MaxOrders orders.
MaxOrders == 3
\* A list of exclusive keys (Account.tags, Account.resources) grows to at
\* most MaxKeys entries.
MaxKeys == 3
\* An Account whose orders are edited holds at most MaxAccountOrders orders.
MaxAccountOrders == 2

(***************************************************************************)
(* Option<T>: None is the empty sequence, Some(x) the sequence <<x>>.      *)
(***************************************************************************)
None == <<>>
Some(x) == <<x>>
is_some(o) == Len(o) = 1
unwrap(o) == o[1]

(***************************************************************************)
(* NaiveDateFilter (filter/date.rs).  A NaiveDate is its day number; the   *)
(* code only ever compares dates through                                   *)
(* a.signed_duration_since(b).num_days(), the difference in whole days.    *)
(***************************************************************************)
DateIgnored == [kind |-> "DateIgnored"]
Since(start) == [kind |-> "Since", start |-> start]
Until(end) == [kind |-> "Until", end |-> end]
Between(start, end) == [kind |-> "Between", start |-> start, end |-> end]

num_days_since(a, b) == a - b

\* Plausible bug: the range is not validated.
check_range_unchecked(start_date, end_date) == Between(start_date, end_date)

check_range(start_date, end_date) ==
    IF num_days_since(end_date, start_date) >= 0
    THEN Between(start_date, end_date)
    ELSE Since(start_date)

\* Plausible bug: the end boundary is dropped when the start is cleared.
set_beginning_drops_end(self, start_date) ==
    IF is_some(start_date)
    THEN CASE self.kind = "DateIgnored" -> Since(unwrap(start_date))
           [] self.kind = "Since" -> Since(unwrap(start_date))
           [] self.kind \in {"Until", "Between"} ->
                  check_range(unwrap(start_date), self.end)
    ELSE DateIgnored

set_beginning(self, start_date) ==
    IF is_some(start_date)
    THEN CASE self.kind = "DateIgnored" -> Since(unwrap(start_date))
           [] self.kind = "Since" -> Since(unwrap(start_date))
           [] self.kind \in {"Until", "Between"} ->
                  check_range(unwrap(start_date), self.end)
    ELSE CASE self.kind \in {"DateIgnored", "Since"} -> DateIgnored
           [] self.kind \in {"Until", "Between"} -> Until(self.end)

\* Plausible bug: an end before the start replaces the start (the exact
\* mirror of set_beginning) instead of being discarded.
set_end_mirrored(self, end_date) ==
    IF is_some(end_date)
    THEN CASE self.kind = "DateIgnored" -> Until(unwrap(end_date))
           [] self.kind \in {"Since", "Between"} ->
                  IF num_days_since(unwrap(end_date), self.start) >= 0
                  THEN Between(self.start, unwrap(end_date))
                  ELSE Until(unwrap(end_date))
           [] self.kind = "Until" -> Until(unwrap(end_date))
    ELSE CASE self.kind \in {"DateIgnored", "Until"} -> DateIgnored
           [] self.kind \in {"Since", "Between"} -> Since(self.start)

\* Plausible bug: clearing the end clears the whole filter.
set_end_clears_all(self, end_date) ==
    IF is_some(end_date)
    THEN CASE self.kind = "DateIgnored" -> Until(unwrap(end_date))
           [] self.kind \in {"Since", "Between"} ->
                  check_range(self.start, unwrap(end_date))
           [] self.kind = "Until" -> Until(unwrap(end_date))
    ELSE DateIgnored

\* Plausible bug: a later end does not replace the end of an Until filter.
set_end_keeps_earlier(self, end_date) ==
    IF is_some(end_date)
    THEN CASE self.kind = "DateIgnored" -> Until(unwrap(end_date))
           [] self.kind \in {"Since", "Between"} ->
                  check_range(self.start, unwrap(end_date))
           [] self.kind = "Until" ->
                  IF unwrap(end_date) > self.end
                  THEN Until(self.end)
                  ELSE Until(unwrap(end_date))
    ELSE CASE self.kind \in {"DateIgnored", "Until"} -> DateIgnored
           [] self.kind \in {"Since", "Between"} -> Since(self.start)

set_end(self, end_date) ==
    IF is_some(end_date)
    THEN CASE self.kind = "DateIgnored" -> Until(unwrap(end_date))
           [] self.kind \in {"Since", "Between"} ->
                  check_range(self.start, unwrap(end_date))
           [] self.kind = "Until" -> Until(unwrap(end_date))
    ELSE CASE self.kind \in {"DateIgnored", "Until"} -> DateIgnored
           [] self.kind \in {"Since", "Between"} -> Since(self.start)

\* Plausible bug: a missing end keeps the end the filter already had.
set_range_keeps_end(self, range) ==
    CASE ~is_some(range[1]) /\ ~is_some(range[2]) -> DateIgnored
      [] is_some(range[1]) /\ ~is_some(range[2]) -> set_beginning(self, range[1])
      [] ~is_some(range[1]) /\ is_some(range[2]) -> Until(unwrap(range[2]))
      [] is_some(range[1]) /\ is_some(range[2]) ->
             check_range(unwrap(range[1]), unwrap(range[2]))

\* range is the pair OptionNaiveDateRange(begin, end).
set_range(self, range) ==
    CASE ~is_some(range[1]) /\ ~is_some(range[2]) -> DateIgnored
      [] is_some(range[1]) /\ ~is_some(range[2]) -> Since(unwrap(range[1]))
      [] ~is_some(range[1]) /\ is_some(range[2]) -> Until(unwrap(range[2]))
      [] is_some(range[1]) /\ is_some(range[2]) ->
             check_range(unwrap(range[1]), unwrap(range[2]))

\* Plausible bug: the boundaries are excluded.
is_date_allowed_exclusive(self, date) ==
    CASE self.kind = "DateIgnored" -> TRUE
      [] self.kind # "DateIgnored" /\ date = None -> FALSE
      [] self.kind = "Until" /\ date # None ->
             num_days_since(self.end, unwrap(date)) > 0
      [] self.kind = "Since" /\ date # None ->
             num_days_since(unwrap(date), self.start) > 0
      [] self.kind = "Between" /\ date # None ->
             /\ num_days_since(unwrap(date), self.start) > 0
             /\ num_days_since(self.end, unwrap(date)) > 0

is_date_allowed(self, date) ==
    CASE self.kind = "DateIgnored" -> TRUE
      [] self.kind # "DateIgnored" /\ date = None -> FALSE
      [] self.kind = "Until" /\ date # None ->
             num_days_since(self.end, unwrap(date)) >= 0
      [] self.kind = "Since" /\ date # None ->
             num_days_since(unwrap(date), self.start) >= 0
      [] self.kind = "Between" /\ date # None ->
             /\ num_days_since(unwrap(date), self.start) >= 0
             /\ num_days_since(self.end, unwrap(date)) >= 0

(***************************************************************************)
(* Filter (filter/mod.rs): the aggregate of the five filtering options.    *)
(***************************************************************************)
Pending == 0
InProgress == 1
Done == 2
TransactionState == {Pending, InProgress, Done}

CategoryIgnored == [kind |-> "CategoryIgnored"]
Enabled(items) == [kind |-> "Enabled", items |-> items]

\* The value of the whole filter.
FilterValue ==
    [visibility |-> visibility, date_option |-> date_option,
     state_option |-> state_option, resource_option |-> resource_option,
     tag_option |-> tag_option]

\* Account: its three fields.
AccountValue ==
    [tags |-> account_tags, resources |-> account_resources,
     orders |-> account_orders]

\* Filter::default()
FilterDefault ==
    [visibility |-> "VisibleOnly", date_option |-> DateIgnored,
     state_option |-> [s \in TransactionState |-> "Selected"],
     resource_option |-> CategoryIgnored, tag_option |-> CategoryIgnored]

Init ==
    /\ visibility = FilterDefault.visibility
    /\ date_option = FilterDefault.date_option
    /\ state_option = FilterDefault.state_option
    /\ resource_option = FilterDefault.resource_option
    /\ tag_option = FilterDefault.tag_option
    /\ call = [op |-> "default", args |-> <<>>]
    /\ before = FilterDefault
    /\ ret = None
    /\ account_tags = <<>>
    /\ account_resources = <<>>
    /\ account_orders = <<>>
    /\ account_before = AccountValue

(***************************************************************************)
(* SpecDate: a NaiveDateFilter, starting from DateIgnored, driven through  *)
(* its own methods with optional dates.                                    *)
(***************************************************************************)
Days == 1..MaxDay
OptionDays == {None} \cup {Some(d) : d \in Days}

SetRange(begin, end) ==
    /\ date_option' = set_range(date_option, <<begin, end>>)
    /\ call' = [op |-> "set_range", args |-> <<begin, end>>]
    /\ before' = FilterValue
    /\ UNCHANGED account_vars
    /\ ret' = None
    /\ UNCHANGED <<visibility, state_option, resource_option, tag_option>>

SetBeginning(start_date) ==
    /\ date_option' = set_beginning(date_option, start_date)
    /\ call' = [op |-> "set_beginning", args |-> <<start_date>>]
    /\ before' = FilterValue
    /\ UNCHANGED account_vars
    /\ ret' = None
    /\ UNCHANGED <<visibility, state_option, resource_option, tag_option>>

SetEnd(end_date) ==
    /\ date_option' = set_end(date_option, end_date)
    /\ call' = [op |-> "set_end", args |-> <<end_date>>]
    /\ before' = FilterValue
    /\ UNCHANGED account_vars
    /\ ret' = None
    /\ UNCHANGED <<visibility, state_option, resource_option, tag_option>>

IsDateAllowed(date) ==
    /\ call' = [op |-> "is_date_allowed", args |-> <<date>>]
    /\ before' = FilterValue
    /\ UNCHANGED account_vars
    /\ ret' = Some(is_date_allowed(date_option, date))
    /\ UNCHANGED <<visibility, date_option, state_option, resource_option,
                   tag_option>>

NextDate ==
    \/ \E begin \in OptionDays, end \in OptionDays : SetRange(begin, end)
    \/ \E start_date \in OptionDays : SetBeginning(start_date)
    \/ \E end_date \in OptionDays : SetEnd(end_date)
    \/ \E date \in OptionDays : IsDateAllowed(date)

SpecDate == Init /\ [][NextDate]_vars

(***************************************************************************)
(* CategoryFilter (filter/category.rs).  A Category is the pair            *)
(* <<name, selector>>; the selector is "Selected" or "Discarded".          *)
(***************************************************************************)
Category(name, selector) == <<name, selector>>

\* items.iter().position(|item| item.0 == name): the first index, if any.
position(items, name) ==
    IF \E i \in 1..Len(items) : items[i][1] = name
    THEN Some(CHOOSE i \in 1..Len(items) :
                  /\ items[i][1] = name
                  /\ \A j \in 1..(i - 1) : items[j][1] # name)
    ELSE None

\* Variant: toggle only ever discards.
toggle_selector_discards(selector) == "Discarded"

\* ItemSelector::toggle
toggle_selector(selector) ==
    IF selector = "Discarded" THEN "Selected" ELSE "Discarded"

\* Vec::remove(index)
remove_at(items, index) ==
    [k \in 1..(Len(items) - 1) |-> IF k < index THEN items[k] ELSE items[k + 1]]

\* Variant: an empty replacement list is skipped.
category_set_skips_empty(self, categories) ==
    IF categories = <<>> THEN self ELSE Enabled(categories)

category_set(self, categories) == Enabled(categories)

\* Variant: a name already in the list is not added again.
category_add_unique(self, category) ==
    IF self.kind = "Enabled"
    THEN IF is_some(position(self.items, category[1]))
         THEN self
         ELSE Enabled(Append(self.items, category))
    ELSE Enabled(<<category>>)

category_add(self, category) ==
    IF self.kind = "Enabled"
    THEN Enabled(Append(self.items, category))
    ELSE Enabled(<<category>>)

\* Variant: the last entry with the name is the one taken out.
category_remove_last_match(self, category_name) ==
    IF self.kind = "Enabled" /\ is_some(position(self.items, category_name))
    THEN LET index == CHOOSE i \in 1..Len(self.items) :
                          /\ self.items[i][1] = category_name
                          /\ \A j \in (i + 1)..Len(self.items) :
                                 self.items[j][1] # category_name
         IN  [self |-> IF Len(self.items) > 1
                       THEN Enabled(remove_at(self.items, index))
                       ELSE CategoryIgnored,
              ret |-> TRUE]
    ELSE [self |-> self, ret |-> FALSE]

\* Variant: the entry is always taken out of the list, a lone one included.
category_remove_no_collapse(self, category_name) ==
    IF self.kind = "Enabled" /\ is_some(position(self.items, category_name))
    THEN [self |-> Enabled(remove_at(self.items,
                                     unwrap(position(self.items, category_name)))),
          ret |-> TRUE]
    ELSE [self |-> self, ret |-> FALSE]

\* Variant: an unknown name switches an Enabled filter off.
category_remove_unknown_disables(self, category_name) ==
    IF self.kind = "Enabled" /\ is_some(position(self.items, category_name))
    THEN [self |-> IF Len(self.items) > 1
                   THEN Enabled(remove_at(self.items,
                                          unwrap(position(self.items, category_name))))
                   ELSE CategoryIgnored,
          ret |-> TRUE]
    ELSE [self |-> CategoryIgnored, ret |-> FALSE]

\* The filter after the call and the value returned.
category_remove(self, category_name) ==
    IF self.kind = "Enabled"
    THEN LET index == position(self.items, category_name)
         IN  IF is_some(index)
             THEN [self |-> IF Len(self.items) > 1
                            THEN Enabled(remove_at(self.items, unwrap(index)))
                            ELSE CategoryIgnored,
                   ret |-> TRUE]
             ELSE [self |-> self, ret |-> FALSE]
    ELSE [self |-> self, ret |-> FALSE]

\* Variant: every entry with the name is flipped.
category_toggle_every_match(self, category) ==
    IF self.kind = "Enabled" /\ is_some(position(self.items, category))
    THEN LET i == unwrap(position(self.items, category))
         IN  [self |-> Enabled([k \in 1..Len(self.items) |->
                                    IF self.items[k][1] = category
                                    THEN <<category,
                                           toggle_selector(self.items[k][2])>>
                                    ELSE self.items[k]]),
              ret |-> Some(toggle_selector(self.items[i][2]))]
    ELSE [self |-> self, ret |-> None]

\* The filter after the call and the value returned (the new selector).
category_toggle(self, category) ==
    IF self.kind = "Enabled"
    THEN LET index == position(self.items, category)
         IN  IF is_some(index)
             THEN LET i == unwrap(index)
                      toggled == toggle_selector(self.items[i][2])
                  IN  [self |-> Enabled([self.items EXCEPT
                                             ![i] = <<self.items[i][1], toggled>>]),
                       ret |-> Some(toggled)]
             ELSE [self |-> self, ret |-> None]
    ELSE [self |-> self, ret |-> None]

\* Variant: one Selected name found in the list is enough.
with_each_selected_any(self, category_names) ==
    IF self.kind = "CategoryIgnored"
    THEN TRUE
    ELSE \/ \A i \in 1..Len(self.items) : self.items[i][2] = "Discarded"
         \/ \E i \in 1..Len(self.items) :
                /\ self.items[i][2] = "Selected"
                /\ \E k \in 1..Len(category_names) :
                       category_names[k] = self.items[i][1]

with_each_selected(self, category_names) ==
    IF self.kind = "CategoryIgnored"
    THEN TRUE
    ELSE \A i \in 1..Len(self.items) :
             self.items[i][2] = "Selected" =>
                 \E k \in 1..Len(category_names) :
                     category_names[k] = self.items[i][1]

\* Variant: a name the filter does not hold is let through.
among_any_selected_unknown_passes(self, category_name) ==
    CASE self.kind = "CategoryIgnored" -> TRUE
      [] self.kind = "Enabled" /\ category_name = None ->
             \A i \in 1..Len(self.items) : self.items[i][2] = "Discarded"
      [] self.kind = "Enabled" /\ category_name # None ->
             \/ \E i \in 1..Len(self.items) :
                    /\ self.items[i][2] = "Selected"
                    /\ self.items[i][1] = unwrap(category_name)
             \/ \A i \in 1..Len(self.items) :
                    self.items[i][1] # unwrap(category_name)

among_any_selected(self, category_name) ==
    CASE self.kind = "CategoryIgnored" -> TRUE
      [] self.kind = "Enabled" /\ category_name = None ->
             \A i \in 1..Len(self.items) : self.items[i][2] = "Discarded"
      [] self.kind = "Enabled" /\ category_name # None ->
             \E i \in 1..Len(self.items) :
                 /\ self.items[i][2] = "Selected"
                 /\ self.items[i][1] = unwrap(category_name)

(***************************************************************************)
(* NaiveDate::from_str, as Filter uses it on the strings it is given.  A   *)
(* string is the sequence of its characters.  The format is                *)
(* year-month-day: a year of 1 to 4 digits, a month and a day of 1 or 2    *)
(* digits, nothing after the day, and the three numbers must name a day of *)
(* the calendar.  The date is the number of days since 0001-01-01.         *)
(***************************************************************************)
DigitValue ==
    ("0" :> 0) @@ ("1" :> 1) @@ ("2" :> 2) @@ ("3" :> 3) @@ ("4" :> 4) @@
    ("5" :> 5) @@ ("6" :> 6) @@ ("7" :> 7) @@ ("8" :> 8) @@ ("9" :> 9)

is_digit(c) == c \in DOMAIN DigitValue

\* The length of the run of digits of s that starts at i, at most width.
digit_run(s, i, width) ==
    CHOOSE n \in 0..width :
        /\ \A k \in 0..(n - 1) : i + k <= Len(s) /\ is_digit(s[i + k])
        /\ n = width \/ i + n > Len(s) \/ ~is_digit(s[i + n])

RECURSIVE number_at(_, _, _)
number_at(s, i, n) ==
    IF n = 0 THEN 0
    ELSE 10 * number_at(s, i, n - 1) + DigitValue[s[i + n - 1]]

is_leap_year(year) ==
    (year % 4 = 0 /\ year % 100 # 0) \/ year % 400 = 0

days_in_month(year, month) ==
    CASE month \in {1, 3, 5, 7, 8, 10, 12} -> 31
      [] month \in {4, 6, 9, 11} -> 30
      [] month = 2 -> IF is_leap_year(year) THEN 29 ELSE 28

RECURSIVE days_before_month(_, _)
days_before_month(year, month) ==
    IF month = 1 THEN 0
    ELSE days_before_month(year, month - 1) + days_in_month(year, month - 1)

num_days_from_ce(year, month, day) ==
    365 * (year - 1) + ((year - 1) \div 4) - ((year - 1) \div 100)
        + ((year - 1) \div 400) + days_before_month(year, month) + day

\* NaiveDate::from_str(s).ok()
from_str(s) ==
    LET ylen == digit_run(s, 1, 4)
        mpos == ylen + 2
        mlen == digit_run(s, mpos, 2)
        dpos == mpos + mlen + 1
        dlen == digit_run(s, dpos, 2)
        year == number_at(s, 1, ylen)
        month == number_at(s, mpos, mlen)
        day == number_at(s, dpos, dlen)
    IN  IF /\ ylen >= 1 /\ mlen >= 1 /\ dlen >= 1
           /\ Len(s) = dpos + dlen - 1
           /\ s[ylen + 1] = "-"
           /\ s[mpos + mlen] = "-"
           /\ month \in 1..12
           /\ day \in 1..days_in_month(year, month)
        THEN Some(num_days_from_ce(year, month, day))
        ELSE None

(***************************************************************************)
(* Filter::is_order_allowed (filter/mod.rs).  An order is the record of    *)
(* the fields the filter reads: date, resource, tags, state, visible.      *)
(***************************************************************************)
\* Plausible bug: HiddenOnly is treated like VisibilityIgnored.
visibility_match_hidden_ignored(self, order) ==
    CASE self.visibility = "VisibilityIgnored" -> TRUE
      [] self.visibility = "VisibleOnly" -> order.visible
      [] self.visibility = "HiddenOnly" -> TRUE

visibility_match(self, order) ==
    CASE self.visibility = "VisibilityIgnored" -> TRUE
      [] self.visibility = "VisibleOnly" -> order.visible
      [] self.visibility = "HiddenOnly" -> ~order.visible

state_match(self, order) == self.state_option[order.state] = "Selected"

date_match(self, order) ==
    CASE self.date_option.kind = "DateIgnored" -> TRUE
      [] self.date_option.kind = "Until" ->
             IF is_some(order.date)
             THEN num_days_since(self.date_option.end, unwrap(order.date)) >= 0
             ELSE FALSE
      [] self.date_option.kind = "Since" ->
             IF is_some(order.date)
             THEN num_days_since(unwrap(order.date), self.date_option.start) >= 0
             ELSE FALSE
      [] self.date_option.kind = "Between" ->
             IF is_some(order.date)
             THEN /\ num_days_since(unwrap(order.date), self.date_option.start) >= 0
                  /\ num_days_since(self.date_option.end, unwrap(order.date)) >= 0
             ELSE FALSE

\* Variant: a tag the filter does not hold counts as discarded.
tag_match_unknown_discarded(self, order) ==
    IF self.tag_option.kind = "CategoryIgnored"
    THEN TRUE
    ELSE LET tags == self.tag_option.items
         IN  IF order.tags # <<>>
             THEN ~(\A t \in 1..Len(order.tags) :
                        LET index == position(tags, order.tags[t])
                        IN  IF is_some(index)
                            THEN tags[unwrap(index)][2] = "Discarded"
                            ELSE TRUE)
             ELSE TRUE

tag_match(self, order) ==
    IF self.tag_option.kind = "CategoryIgnored"
    THEN TRUE
    ELSE LET tags == self.tag_option.items
         IN  IF order.tags # <<>>
             THEN ~(\A t \in 1..Len(order.tags) :
                        LET index == position(tags, order.tags[t])
                        IN  IF is_some(index)
                            THEN tags[unwrap(index)][2] = "Discarded"
                            ELSE FALSE)
             ELSE TRUE

resource_match(self, order) ==
    IF self.resource_option.kind = "CategoryIgnored"
    THEN TRUE
    ELSE LET resources == self.resource_option.items
         IN  IF is_some(order.resource)
             THEN LET index == position(resources, unwrap(order.resource))
                  IN  IF is_some(index)
                      THEN resources[unwrap(index)][2] = "Selected"
                      ELSE TRUE
             ELSE \A i \in 1..Len(resources) : resources[i][2] = "Discarded"

is_order_allowed(self, order) ==
    /\ visibility_match(self, order)
    /\ state_match(self, order)
    /\ date_match(self, order)
    /\ tag_match(self, order)
    /\ resource_match(self, order)

(***************************************************************************)
(* Spec: a Filter, starting from Filter::default(), whose visibility,      *)
(* state selection and date boundaries are driven through its public       *)
(* methods (the dates arrive as strings) and which is asked about orders.  *)
(***************************************************************************)
DateStrings ==
    { <<"2", "0", "2", "0", "-", "0", "2", "-", "0", "3">>,
      <<"2", "0", "2", "0", "-", "0", "5", "-", "0", "5">>,
      <<>>,
      <<"2", "0", "2", "0", "-", "0", "2", "-", "3", "0">>,
      <<"0", "5", "/", "0", "5", "/", "2", "0", "2", "0">> }

\* The dates an order may carry: none, the two days the strings name, the
\* day before the first, a day between them and the day after the second.
OrderDates ==
    { None,
      Some(num_days_from_ce(2020, 2, 2)), Some(num_days_from_ce(2020, 2, 3)),
      Some(num_days_from_ce(2020, 4, 30)),
      Some(num_days_from_ce(2020, 5, 5)), Some(num_days_from_ce(2020, 5, 6)) }

\* An order without resource and tags, or with one of each.
Orders ==
    [date : OrderDates, resource : {None}, tags : {<<>>},
     state : TransactionState, visible : BOOLEAN]
    \cup
    [date : OrderDates, resource : {Some("Bank")}, tags : {<<"Car">>},
     state : TransactionState, visible : BOOLEAN]

SetDateOption(start, stop) ==
    /\ date_option' = set_range(date_option, <<from_str(start), from_str(stop)>>)
    /\ call' = [op |-> "set_date_option", args |-> <<start, stop>>]
    /\ before' = FilterValue
    /\ UNCHANGED account_vars
    /\ ret' = Some(date_option'.kind = "Between")
    /\ UNCHANGED <<visibility, state_option, resource_option, tag_option>>

SetDateBeginning(start) ==
    /\ date_option' = set_beginning(date_option, from_str(start))
    /\ call' = [op |-> "set_date_beginning", args |-> <<start>>]
    /\ before' = FilterValue
    /\ UNCHANGED account_vars
    /\ ret' = Some(date_option'.kind \in {"Since", "Between"})
    /\ UNCHANGED <<visibility, state_option, resource_option, tag_option>>

SetDateEnd(end) ==
    /\ date_option' = set_end(date_option, from_str(end))
    /\ call' = [op |-> "set_date_end", args |-> <<end>>]
    /\ before' = FilterValue
    /\ UNCHANGED account_vars
    /\ ret' = Some(date_option'.kind \in {"Until", "Between"})
    /\ UNCHANGED <<visibility, state_option, resource_option, tag_option>>

DisableDateOption ==
    /\ date_option' = DateIgnored
    /\ call' = [op |-> "disable_date_option", args |-> <<>>]
    /\ before' = FilterValue
    /\ UNCHANGED account_vars
    /\ ret' = None
    /\ UNCHANGED <<visibility, state_option, resource_option, tag_option>>

ToggleState(state) ==
    /\ state_option' = [state_option EXCEPT
                            ![state] = toggle_selector(state_option[state])]
    /\ call' = [op |-> "toggle_state", args |-> <<state>>]
    /\ before' = FilterValue
    /\ UNCHANGED account_vars
    /\ ret' = None
    /\ UNCHANGED <<visibility, date_option, resource_option, tag_option>>

\* Filter.visibility is a public field: the caller assigns it.
SetVisibility(value) ==
    /\ visibility' = value
    /\ call' = [op |-> "visibility", args |-> <<value>>]
    /\ before' = FilterValue
    /\ UNCHANGED account_vars
    /\ ret' = None
    /\ UNCHANGED <<date_option, state_option, resource_option, tag_option>>

IsOrderAllowed(order) ==
    /\ call' = [op |-> "is_order_allowed", args |-> <<order>>]
    /\ before' = FilterValue
    /\ UNCHANGED account_vars
    /\ ret' = Some(is_order_allowed(FilterValue, order))
    /\ UNCHANGED <<visibility, date_option, state_option, resource_option,
                   tag_option>>

Next ==
    \/ \E start \in DateStrings, stop \in DateStrings : SetDateOption(start, stop)
    \/ \E start \in DateStrings : SetDateBeginning(start)
    \/ \E end \in DateStrings : SetDateEnd(end)
    \/ DisableDateOption
    \/ \E state \in TransactionState : ToggleState(state)
    \/ \E value \in {"VisibilityIgnored", "VisibleOnly", "HiddenOnly"} :
           SetVisibility(value)
    \/ \E order \in Orders : IsOrderAllowed(order)

Spec == Init /\ [][Next]_vars

(***************************************************************************)
(* SpecTag and SpecResource: a Filter whose tag filter (resource filter)   *)
(* is driven through the CategoryFilter methods, reached with              *)
(* get_tag_option_mut (get_resource_option_mut), and which is asked about  *)
(* orders that differ in their tags (resource).                            *)
(***************************************************************************)
TagNames == {"Car", "Mum"}
ResourceNames == {"Bank", "Cash"}
Selectors == {"Selected", "Discarded"}

\* The lists of at most MaxItems categories over the given names.
CategoryLists(names) ==
    UNION {[1..n -> {Category(name, selector) :
                         name \in names, selector \in Selectors}] :
               n \in 0..MaxItems}

\* An order holds a tag at most once (Order::add_tag goes through
\* add_exclusive).
TagLists ==
    {<<>>} \cup {<<t>> : t \in TagNames}
           \cup {p \in TagNames \X TagNames : p[1] # p[2]}

TagOrders ==
    [date : {None}, resource : {None}, tags : TagLists,
     state : {Pending}, visible : BOOLEAN]

ResourceOrders ==
    [date : {None}, resource : {None} \cup {Some(r) : r \in ResourceNames},
     tags : {<<>>}, state : {Pending}, visible : BOOLEAN]

\* kind is "Tag" or "Resource": the option the caller borrowed.
category_option(kind) == IF kind = "Tag" THEN tag_option ELSE resource_option

CategoryStore(kind, value) ==
    IF kind = "Tag"
    THEN tag_option' = value /\ UNCHANGED resource_option
    ELSE resource_option' = value /\ UNCHANGED tag_option

CategorySet(kind, categories) ==
    /\ CategoryStore(kind, category_set(category_option(kind), categories))
    /\ call' = [op |-> "set", args |-> <<kind, categories>>]
    /\ before' = FilterValue
    /\ UNCHANGED account_vars
    /\ ret' = None
    /\ UNCHANGED <<visibility, date_option, state_option>>

\* add, while the list holds fewer than limit entries.
CategoryAddWithin(kind, category, limit) ==
    /\ category_option(kind).kind = "Enabled" =>
           Len(category_option(kind).items) < limit
    /\ CategoryStore(kind, category_add(category_option(kind), category))
    /\ call' = [op |-> "add", args |-> <<kind, category>>]
    /\ before' = FilterValue
    /\ UNCHANGED account_vars
    /\ ret' = None
    /\ UNCHANGED <<visibility, date_option, state_option>>

CategoryAdd(kind, category) == CategoryAddWithin(kind, category, MaxItems)

CategoryRemove(kind, category_name) ==
    LET done == category_remove(category_option(kind), category_name)
    IN  /\ CategoryStore(kind, done.self)
        /\ call' = [op |-> "remove", args |-> <<kind, category_name>>]
        /\ before' = FilterValue
        /\ UNCHANGED account_vars
        /\ ret' = Some(done.ret)
        /\ UNCHANGED <<visibility, date_option, state_option>>

CategoryToggle(kind, category) ==
    LET done == category_toggle(category_option(kind), category)
    IN  /\ CategoryStore(kind, done.self)
        /\ call' = [op |-> "toggle", args |-> <<kind, category>>]
        /\ before' = FilterValue
        /\ UNCHANGED account_vars
        /\ ret' = done.ret
        /\ UNCHANGED <<visibility, date_option, state_option>>

NextTag ==
    \/ \E categories \in CategoryLists(TagNames) : CategorySet("Tag", categories)
    \/ \E name \in TagNames, selector \in Selectors :
           CategoryAdd("Tag", Category(name, selector))
    \/ \E name \in TagNames : CategoryRemove("Tag", name)
    \/ \E name \in TagNames : CategoryToggle("Tag", name)
    \/ \E order \in TagOrders : IsOrderAllowed(order)

SpecTag == Init /\ [][NextTag]_vars

NextResource ==
    \/ \E categories \in CategoryLists(ResourceNames) :
           CategorySet("Resource", categories)
    \/ \E name \in ResourceNames, selector \in Selectors :
           CategoryAdd("Resource", Category(name, selector))
    \/ \E name \in ResourceNames : CategoryRemove("Resource", name)
    \/ \E name \in ResourceNames : CategoryToggle("Resource", name)
    \/ \E order \in ResourceOrders : IsOrderAllowed(order)

SpecResource == Init /\ [][NextResource]_vars

(***************************************************************************)
(* SpecCategory: one CategoryFilter (the tag filter) driven through all    *)
(* its methods, the two admission predicates included.                     *)
(* SpecCategoryEdit: the same without set, so that every state is reached  *)
(* from CategoryIgnored by add, remove and toggle alone.                   *)
(***************************************************************************)
WithEachSelected(kind, category_names) ==
    /\ call' = [op |-> "with_each_selected", args |-> <<kind, category_names>>]
    /\ before' = FilterValue
    /\ UNCHANGED account_vars
    /\ ret' = Some(with_each_selected(category_option(kind), category_names))
    /\ UNCHANGED <<visibility, date_option, state_option, resource_option,
                   tag_option>>

AmongAnySelected(kind, category_name) ==
    /\ call' = [op |-> "among_any_selected", args |-> <<kind, category_name>>]
    /\ before' = FilterValue
    /\ UNCHANGED account_vars
    /\ ret' = Some(among_any_selected(category_option(kind), category_name))
    /\ UNCHANGED <<visibility, date_option, state_option, resource_option,
                   tag_option>>

\* add, up to MaxLen entries.
CategoryAddLong(kind, category) == CategoryAddWithin(kind, category, MaxLen)

OptionTagNames == {None} \cup {Some(name) : name \in TagNames}

NextCategory ==
    \/ \E categories \in CategoryLists(TagNames) : CategorySet("Tag", categories)
    \/ \E name \in TagNames, selector \in Selectors :
           CategoryAdd("Tag", Category(name, selector))
    \/ \E name \in TagNames : CategoryRemove("Tag", name)
    \/ \E name \in TagNames : CategoryToggle("Tag", name)
    \/ \E names \in TagLists : WithEachSelected("Tag", names)
    \/ \E name \in OptionTagNames : AmongAnySelected("Tag", name)

SpecCategory == Init /\ [][NextCategory]_vars

NextCategoryEdit ==
    \/ \E name \in TagNames, selector \in Selectors :
           CategoryAddLong("Tag", Category(name, selector))
    \/ \E name \in TagNames : CategoryRemove("Tag", name)
    \/ \E name \in TagNames : CategoryToggle("Tag", name)

SpecCategoryEdit == Init /\ [][NextCategoryEdit]_vars

(***************************************************************************)
(* OrderListExt::apply_filter: keep the admitted orders, each paired with  *)
(* its (0-based) index, then sort the pairs by the filter's ordering and   *)
(* direction with the stable slice::sort_by.  A description is a sequence  *)
(* of ASCII codes; an amount is a number or NaN.                           *)
(***************************************************************************)
OrderingPreference == {"ByDate", "ByDescription", "ByAmount", "ById"}
OrderingDirection == {"Ascending", "Descending"}

Amount(value) == [nan |-> FALSE, value |-> value]
NaN == [nan |-> TRUE, value |-> 0]

\* Ord::cmp on integers.
cmp(a, b) == IF a < b THEN "Less" ELSE IF a = b THEN "Equal" ELSE "Greater"

\* Option<NaiveDate>::cmp: None is less than every Some.
cmp_date(a, b) ==
    CASE a = None /\ b = None -> "Equal"
      [] a = None /\ b # None -> "Less"
      [] a # None /\ b = None -> "Greater"
      [] OTHER -> cmp(unwrap(a), unwrap(b))

\* str::to_lowercase on ASCII: 'A'..'Z' (65..90) go to 'a'..'z'.
to_lowercase(s) ==
    [i \in 1..Len(s) |-> IF s[i] >= 65 /\ s[i] <= 90 THEN s[i] + 32 ELSE s[i]]

\* String::cmp: lexicographic, a proper prefix being less.
RECURSIVE cmp_str(_, _)
cmp_str(a, b) ==
    CASE a = <<>> /\ b = <<>> -> "Equal"
      [] a = <<>> /\ b # <<>> -> "Less"
      [] a # <<>> /\ b = <<>> -> "Greater"
      [] OTHER -> IF Head(a) = Head(b)
                  THEN cmp_str(Tail(a), Tail(b))
                  ELSE cmp(Head(a), Head(b))

\* f32::partial_cmp: no answer when either side is NaN.
partial_cmp(a, b) ==
    IF a.nan \/ b.nan THEN None ELSE Some(cmp(a.value, b.value))

\* Variant: the direction is not looked at, every sort is ascending.
compare_ascending_only(ordering, direction, a, b) ==
    CASE ordering = "ByDate" -> cmp_date(a[2].date, b[2].date)
      [] ordering = "ByDescription" ->
             cmp_str(to_lowercase(a[2].description),
                     to_lowercase(b[2].description))
      [] ordering = "ByAmount" ->
             IF is_some(partial_cmp(a[2].amount, b[2].amount))
             THEN unwrap(partial_cmp(a[2].amount, b[2].amount))
             ELSE "Panic"
      [] ordering = "ById" -> cmp(a[1], b[1])

\* The closure handed to sort_by for two pairs <<index, order>>; Descending
\* swaps the two sides.  "Panic" is expect() on a missing partial_cmp.
compare(ordering, direction, a, b) ==
    LET l == IF direction = "Ascending" THEN a ELSE b
        r == IF direction = "Ascending" THEN b ELSE a
    IN  CASE ordering = "ByDate" -> cmp_date(l[2].date, r[2].date)
          [] ordering = "ByDescription" ->
                 cmp_str(to_lowercase(l[2].description),
                         to_lowercase(r[2].description))
          [] ordering = "ByAmount" ->
                 LET answer == partial_cmp(l[2].amount, r[2].amount)
                 IN  IF is_some(answer) THEN unwrap(answer) ELSE "Panic"
          [] ordering = "ById" -> cmp(l[1], r[1])

\* Variant: a descending sort that is the ascending one read backwards, so
\* that equal elements come out in reverse index order.
RECURSIVE sort_by_reversing(_, _, _)
sort_by_reversing(v, ordering, direction) ==
    IF Len(v) <= 1
    THEN v
    ELSE LET front == sort_by_reversing(SubSeq(v, 1, Len(v) - 1), ordering,
                                        direction)
             last == v[Len(v)]
             keep == Cardinality({i \in 1..Len(front) :
                         IF direction = "Descending"
                         THEN compare(ordering, direction, front[i], last) = "Less"
                         ELSE compare(ordering, direction, front[i], last) # "Greater"})
         IN  SubSeq(front, 1, keep) \o <<last>> \o
             SubSeq(front, keep + 1, Len(front))

\* slice::sort_by is stable: each element goes behind the elements before
\* it that are not greater.
RECURSIVE sort_by(_, _, _)
sort_by(v, ordering, direction) ==
    IF Len(v) <= 1
    THEN v
    ELSE LET front == sort_by(SubSeq(v, 1, Len(v) - 1), ordering, direction)
             last == v[Len(v)]
             keep == Cardinality({i \in 1..Len(front) :
                         compare(ordering, direction, front[i], last) # "Greater"})
         IN  SubSeq(front, 1, keep) \o <<last>> \o
             SubSeq(front, keep + 1, Len(front))

\* Sorting two or more pairs compares every one of them with another.
sort_panics(v, ordering, direction) ==
    \E i, j \in 1..Len(v) :
        i # j /\ compare(ordering, direction, v[i], v[j]) = "Panic"

\* self.iter().enumerate().filter(|(_, order)| filter.is_order_allowed(order))
RECURSIVE filtered_vector(_, _)
filtered_vector(orders, filter) ==
    IF orders = <<>>
    THEN <<>>
    ELSE LET front == filtered_vector(SubSeq(orders, 1, Len(orders) - 1), filter)
             last == orders[Len(orders)]
         IN  IF is_order_allowed(filter, last)
             THEN Append(front, <<Len(orders) - 1, last>>)
             ELSE front

\* The pairs returned, or the panic of the sort.
apply_filter(orders, filter, ordering, direction) ==
    LET admitted == filtered_vector(orders, filter)
    IN  IF sort_panics(admitted, ordering, direction)
        THEN [panic |-> TRUE, pairs |-> <<>>]
        ELSE [panic |-> FALSE, pairs |-> sort_by(admitted, ordering, direction)]

(***************************************************************************)
(* SpecApply: a Filter whose visibility the caller assigns, and            *)
(* apply_filter on lists of at most MaxOrders orders.  The ordering and    *)
(* the direction apply_filter reads from the filter come with the call.    *)
(***************************************************************************)
\* Three orders: "b" without date, amount 1; "a" with a NaN amount; a hidden
\* "B" of the same day, amount 0.
ApplyOrders ==
    { [date |-> None, description |-> <<98>>, amount |-> Amount(1),
       resource |-> None, tags |-> <<>>, state |-> Pending, visible |-> TRUE],
      [date |-> Some(1), description |-> <<97>>, amount |-> NaN,
       resource |-> None, tags |-> <<>>, state |-> Pending, visible |-> TRUE],
      [date |-> Some(1), description |-> <<66>>, amount |-> Amount(0),
       resource |-> None, tags |-> <<>>, state |-> Pending, visible |-> FALSE] }

OrderLists == UNION {[1..n -> ApplyOrders] : n \in 0..MaxOrders}

ApplyFilter(orders, ordering, direction) ==
    /\ call' = [op |-> "apply_filter", args |-> <<orders, ordering, direction>>]
    /\ before' = FilterValue
    /\ UNCHANGED account_vars
    /\ ret' = Some(apply_filter(orders, FilterValue, ordering, direction))
    /\ UNCHANGED <<visibility, date_option, state_option, resource_option,
                   tag_option>>

NextApply ==
    \/ \E value \in {"VisibilityIgnored", "VisibleOnly", "HiddenOnly"} :
           SetVisibility(value)
    \/ \E orders \in OrderLists, ordering \in OrderingPreference,
          direction \in OrderingDirection :
           ApplyFilter(orders, ordering, direction)

SpecApply == Init /\ [][NextApply]_vars

(***************************************************************************)
(* OrderListExt::calculate_category_amount on a list of orders: the        *)
(* visible orders that carry the category and whose date passes the date   *)
(* filter built from the range are summed by state.                        *)
(* SpecAmount: the list is account_orders, built one order at a time.      *)
(***************************************************************************)
filter_vars ==
    <<visibility, date_option, state_option, resource_option, tag_option>>

\* f32 addition: NaN absorbs.
add_amount(a, b) == IF a.nan \/ b.nan THEN NaN ELSE Amount(a.value + b.value)

\* Vec::contains
contains(list, item) == \E i \in 1..Len(list) : list[i] = item

\* The first filter of the chain, for either kind.
carries_category(order, kind, category) ==
    /\ order.visible
    /\ IF kind = "Resource"
       THEN order.resource = Some(category)
       ELSE contains(order.tags, category)

\* Variant: Pending amounts are left out of expected.
update_amount_skips_pending(result, order) ==
    [current |-> IF order.state = Done
                 THEN add_amount(result.current, order.amount)
                 ELSE result.current,
     pending |-> IF order.state = Pending
                 THEN add_amount(result.pending, order.amount)
                 ELSE result.pending,
     in_progress |-> IF order.state = InProgress
                     THEN add_amount(result.in_progress, order.amount)
                     ELSE result.in_progress,
     expected |-> IF order.state = Pending
                  THEN result.expected
                  ELSE add_amount(result.expected, order.amount),
     nb_orders |-> result.nb_orders + 1]

\* The closure update_amount; nb_orders rides along with the four sums.
update_amount(result, order) ==
    [current |-> IF order.state = Done
                 THEN add_amount(result.current, order.amount)
                 ELSE result.current,
     pending |-> IF order.state = Pending
                 THEN add_amount(result.pending, order.amount)
                 ELSE result.pending,
     in_progress |-> IF order.state = InProgress
                     THEN add_amount(result.in_progress, order.amount)
                     ELSE result.in_progress,
     expected |-> add_amount(result.expected, order.amount),
     nb_orders |-> result.nb_orders + 1]

\* iter().filter(..).filter(..).for_each(update_amount), front to back.
RECURSIVE accumulate(_, _, _, _)
accumulate(list, kind, category, date_filter) ==
    IF list = <<>>
    THEN [current |-> Amount(0), pending |-> Amount(0),
          in_progress |-> Amount(0), expected |-> Amount(0), nb_orders |-> 0]
    ELSE LET result == accumulate(SubSeq(list, 1, Len(list) - 1), kind,
                                  category, date_filter)
             order == list[Len(list)]
         IN  IF /\ carries_category(order, kind, category)
                /\ is_date_allowed(date_filter, order.date)
             THEN update_amount(result, order)
             ELSE result

\* Some(CategoryAmount) when an order was counted, None otherwise.
calculate_category_amount(list, kind, category, date_range) ==
    LET date_filter == set_range(DateIgnored, date_range)
        result == accumulate(list, kind, category, date_filter)
    IN  IF result.nb_orders > 0
        THEN Some([current |-> result.current, pending |-> result.pending,
                   in_progress |-> result.in_progress,
                   expected |-> result.expected])
        ELSE None

\* Orders that differ in visibility, resource, tags, date, state and amount.
AmountOrders ==
    { [date |-> Some(1), description |-> <<>>, amount |-> Amount(2),
       resource |-> Some("Bank"), tags |-> <<"Car">>, state |-> Done,
       visible |-> TRUE],
      [date |-> Some(2), description |-> <<>>, amount |-> Amount(-2),
       resource |-> Some("Bank"), tags |-> <<>>, state |-> Pending,
       visible |-> TRUE],
      [date |-> Some(2), description |-> <<>>, amount |-> Amount(1),
       resource |-> None, tags |-> <<"Mum", "Car">>, state |-> InProgress,
       visible |-> TRUE],
      [date |-> Some(1), description |-> <<>>, amount |-> Amount(4),
       resource |-> Some("Bank"), tags |-> <<"Car">>, state |-> Done,
       visible |-> FALSE],
      [date |-> None, description |-> <<>>, amount |-> Amount(8),
       resource |-> Some("Bank"), tags |-> <<"Car">>, state |-> Pending,
       visible |-> TRUE] }

\* OptionNaiveDateRange values: no range, since day 2, until day 1, days 1-2.
DateRanges ==
    { <<None, None>>, <<Some(2), None>>, <<None, Some(1)>>, <<Some(1), Some(2)>> }

\* The caller appends an order to the list (Vec::push).
PushOrder(order) ==
    /\ Len(account_orders) < MaxOrders
    /\ account_orders' = Append(account_orders, order)
    /\ call' = [op |-> "push", args |-> <<order>>]
    /\ account_before' = AccountValue
    /\ ret' = None
    /\ UNCHANGED <<filter_vars, before, account_tags, account_resources>>

CalculateCategoryAmount(kind, category, date_range) ==
    /\ call' = [op |-> "calculate_category_amount",
                args |-> <<kind, category, date_range>>]
    /\ account_before' = AccountValue
    /\ ret' = calculate_category_amount(account_orders, kind, category, date_range)
    /\ UNCHANGED <<filter_vars, before, account_tags, account_resources,
                   account_orders>>

NextAmount ==
    \/ \E order \in AmountOrders : PushOrder(order)
    \/ \E kind \in {"Resource", "Tag"}, category \in {"Bank", "Car"},
          date_range \in DateRanges :
           CalculateCategoryAmount(kind, category, date_range)

SpecAmount == Init /\ [][NextAmount]_vars

(***************************************************************************)
(* SpecSelector: the two places where ItemSelector::toggle is applied,     *)
(* Filter::toggle_state and CategoryFilter::toggle (on the tag filter).    *)
(***************************************************************************)
NextSelector ==
    \/ \E state \in TransactionState : ToggleState(state)
    \/ \E name \in TagNames, selector \in Selectors :
           CategoryAdd("Tag", Category(name, selector))
    \/ \E name \in TagNames : CategoryToggle("Tag", name)

SpecSelector == Init /\ [][NextSelector]_vars

(***************************************************************************)
(* ExclusiveItemExt for Vec<String>, and the Account methods built on it.  *)
(* A key is a sequence of characters.  The value returned is               *)
(* Option<RequestFailure>.                                                 *)
(* SpecExclusive: Account::add_tag and Account::remove_tag on an account   *)
(* without orders, i.e. add_exclusive and remove_exclusive on its tags.    *)
(***************************************************************************)
\* char::is_whitespace, for the characters used here.
is_whitespace(c) == c \in {" ", "\t", "\n"}

\* Variant: a key already in the list is pushed again.
add_exclusive_unchecked(self, key) ==
    IF key # <<>>
    THEN IF ~(\A i \in 1..Len(key) : is_whitespace(key[i]))
         THEN [self |-> Append(self, key), ret |-> None]
         ELSE [self |-> self, ret |-> Some("IncorrectArgument")]
    ELSE [self |-> self, ret |-> Some("EmptyArgument")]

\* The list after the call and the value returned.
add_exclusive(self, key) ==
    IF key # <<>>
    THEN IF ~(\A i \in 1..Len(key) : is_whitespace(key[i]))
         THEN IF ~(\E i \in 1..Len(self) : self[i] = key)
              THEN [self |-> Append(self, key), ret |-> None]
              ELSE [self |-> self, ret |-> Some("ExistingItem")]
         ELSE [self |-> self, ret |-> Some("IncorrectArgument")]
    ELSE [self |-> self, ret |-> Some("EmptyArgument")]

\* The list after the call and the value returned.
remove_exclusive(self, key) ==
    IF \E i \in 1..Len(self) : self[i] = key
    THEN [self |-> remove_at(self, CHOOSE i \in 1..Len(self) :
                                       /\ self[i] = key
                                       /\ \A j \in 1..(i - 1) : self[j] # key),
          ret |-> None]
    ELSE [self |-> self, ret |-> Some("UnknownItem")]

\* Variant: the order keeps the tag.
order_remove_tag_keeps(order, tag) == order

\* Order::remove_tag: the order afterwards.
order_remove_tag(order, tag) ==
    [order EXCEPT !.tags = remove_exclusive(order.tags, tag).self]

\* Account::add_tag
AccountAddTag(tag) ==
    LET done == add_exclusive(account_tags, tag)
    IN  /\ Len(done.self) <= MaxKeys
        /\ account_tags' = done.self
        /\ call' = [op |-> "add_tag", args |-> <<tag>>]
        /\ account_before' = AccountValue
        /\ ret' = done.ret
        /\ UNCHANGED <<filter_vars, before, account_resources, account_orders>>

\* Account::remove_tag
AccountRemoveTag(tag) ==
    LET done == remove_exclusive(account_tags, tag)
    IN  /\ account_tags' = done.self
        /\ IF done.ret = None
           THEN /\ account_orders' =
                       [i \in 1..Len(account_orders) |->
                            order_remove_tag(account_orders[i], tag)]
                /\ ret' = None
           ELSE /\ UNCHANGED account_orders
                /\ ret' = Some("UnknownItem")
        /\ call' = [op |-> "remove_tag", args |-> <<tag>>]
        /\ account_before' = AccountValue
        /\ UNCHANGED <<filter_vars, before, account_resources>>

\* Keys a caller may pass: three names (one with a leading blank), the empty
\* key and two keys of whitespace only.
ExclusiveKeys ==
    { <<"C">>, <<"M">>, <<" ", "C">>, <<>>, <<" ">>, <<" ", "\t">> }

NextExclusive ==
    \/ \E tag \in ExclusiveKeys : AccountAddTag(tag)
    \/ \E tag \in ExclusiveKeys : AccountRemoveTag(tag)

SpecExclusive == Init /\ [][NextExclusive]_vars

(***************************************************************************)
(* SpecAccountFilter: an Account and the Filter the application keeps      *)
(* beside it.  Tags and resources are added to and removed from the        *)
(* account; categories are added to the two CategoryFilters.               *)
(***************************************************************************)
\* Account::add_resource
AccountAddResource(resource) ==
    LET done == add_exclusive(account_resources, resource)
    IN  /\ Len(done.self) <= MaxKeys
        /\ account_resources' = done.self
        /\ call' = [op |-> "add_resource", args |-> <<resource>>]
        /\ account_before' = AccountValue
        /\ ret' = done.ret
        /\ UNCHANGED <<filter_vars, before, account_tags, account_orders>>

\* Account::remove_resource
AccountRemoveResource(resource) ==
    LET done == remove_exclusive(account_resources, resource)
    IN  /\ account_resources' = done.self
        /\ IF done.ret = None
           THEN /\ account_orders' =
                       [i \in 1..Len(account_orders) |->
                            IF account_orders[i].resource = Some(resource)
                            THEN [account_orders[i] EXCEPT !.resource = None]
                            ELSE account_orders[i]]
                /\ ret' = None
           ELSE /\ UNCHANGED account_orders
                /\ ret' = Some("UnknownItem")
        /\ call' = [op |-> "remove_resource", args |-> <<resource>>]
        /\ account_before' = AccountValue
        /\ UNCHANGED <<filter_vars, before, account_tags>>

\* The names used for tags and for resources.
AccountTagKeys == { <<"C">>, <<"M">> }
AccountResourceKeys == { <<"B">> }

NextAccountFilter ==
    \/ \E tag \in AccountTagKeys : AccountAddTag(tag)
    \/ \E tag \in AccountTagKeys : AccountRemoveTag(tag)
    \/ \E resource \in AccountResourceKeys : AccountAddResource(resource)
    \/ \E resource \in AccountResourceKeys : AccountRemoveResource(resource)
    \/ \E name \in AccountTagKeys, selector \in Selectors :
           CategoryAdd("Tag", Category(name, selector))
    \/ \E name \in AccountResourceKeys, selector \in Selectors :
           CategoryAdd("Resource", Category(name, selector))

SpecAccountFilter == Init /\ [][NextAccountFilter]_vars

(***************************************************************************)
(* SpecAccount: an Account whose tags, resources and orders are edited:    *)
(* Account::add_tag, remove_tag, add_resource, remove_resource, add_order, *)
(* and Order::add_tag / set_resource on get_order_mut(index), called with  *)
(* the account's current lists.                                            *)
(***************************************************************************)
\* Order::default()
OrderDefault ==
    [date |-> None, description |-> <<>>, amount |-> Amount(0),
     resource |-> None, tags |-> <<>>, state |-> Pending, visible |-> TRUE]

\* Order::add_tag(tag, list): the order afterwards and the value returned.
order_add_tag(order, tag, list) ==
    IF contains(list, tag)
    THEN LET done == add_exclusive(order.tags, tag)
         IN  [self |-> [order EXCEPT !.tags = done.self],
              ret |-> done.ret = None]
    ELSE [self |-> order, ret |-> FALSE]

\* Order::set_resource(resource, list)
order_set_resource(order, resource, list) ==
    IF contains(list, resource)
    THEN [self |-> [order EXCEPT !.resource = Some(resource)], ret |-> TRUE]
    ELSE [self |-> order, ret |-> FALSE]

\* Account::add_order: returns the index of the new order.
AddOrder ==
    /\ Len(account_orders) < MaxAccountOrders
    /\ account_orders' = Append(account_orders, OrderDefault)
    /\ call' = [op |-> "add_order", args |-> <<>>]
    /\ account_before' = AccountValue
    /\ ret' = Some(Len(account_orders))
    /\ UNCHANGED <<filter_vars, before, account_tags, account_resources>>

\* account.get_order_mut(index - 1) is Some(order); order.add_tag(tag, tags)
OrderAddTag(index, tag) ==
    LET done == order_add_tag(account_orders[index], tag, account_tags)
    IN  /\ account_orders' = [account_orders EXCEPT ![index] = done.self]
        /\ call' = [op |-> "order_add_tag", args |-> <<index, tag>>]
        /\ account_before' = AccountValue
        /\ ret' = Some(done.ret)
        /\ UNCHANGED <<filter_vars, before, account_tags, account_resources>>

\* order.set_resource(resource, resources) on the order at index
OrderSetResource(index, resource) ==
    LET done == order_set_resource(account_orders[index], resource,
                                   account_resources)
    IN  /\ account_orders' = [account_orders EXCEPT ![index] = done.self]
        /\ call' = [op |-> "order_set_resource", args |-> <<index, resource>>]
        /\ account_before' = AccountValue
        /\ ret' = Some(done.ret)
        /\ UNCHANGED <<filter_vars, before, account_tags, account_resources>>

NextAccount ==
    \/ \E tag \in AccountTagKeys : AccountAddTag(tag)
    \/ \E tag \in AccountTagKeys : AccountRemoveTag(tag)
    \/ \E resource \in AccountResourceKeys : AccountAddResource(resource)
    \/ \E resource \in AccountResourceKeys : AccountRemoveResource(resource)
    \/ AddOrder
    \/ \E index \in 1..Len(account_orders), tag \in AccountTagKeys :
           OrderAddTag(index, tag)
    \/ \E index \in 1..Len(account_orders), resource \in AccountResourceKeys :
           OrderSetResource(index, resource)

SpecAccount == Init /\ [][NextAccount]_vars

(***************************************************************************)
(* impl From<&Filter> for Order: the order a filter suggests.              *)
(* SpecFrom: a Filter whose five options are set, and Order::from on it.   *)
(***************************************************************************)
\* The name of the first Selected resource, if any.
first_selected_resource(filter) ==
    IF filter.resource_option.kind = "Enabled"
    THEN LET items == filter.resource_option.items
         IN  IF \E i \in 1..Len(items) : items[i][2] = "Selected"
             THEN Some(items[CHOOSE i \in 1..Len(items) :
                                 /\ items[i][2] = "Selected"
                                 /\ \A j \in 1..(i - 1) :
                                        items[j][2] # "Selected"][1])
             ELSE None
    ELSE None

\* Variant: the names of all entries, whatever their selector.
RECURSIVE all_tag_names(_)
all_tag_names(items) ==
    IF items = <<>>
    THEN <<>>
    ELSE <<Head(items)[1]>> \o all_tag_names(Tail(items))

\* filter_map over the tag entries: the names of the Selected ones.
RECURSIVE selected_names(_)
selected_names(items) ==
    IF items = <<>>
    THEN <<>>
    ELSE IF Head(items)[2] = "Selected"
         THEN <<Head(items)[1]>> \o selected_names(Tail(items))
         ELSE selected_names(Tail(items))

\* The first Selected transaction state, Pending when there is none.
first_selected_state(filter) ==
    IF \E state \in TransactionState : filter.state_option[state] = "Selected"
    THEN CHOOSE state \in TransactionState :
             /\ filter.state_option[state] = "Selected"
             /\ \A other \in TransactionState :
                    other < state => filter.state_option[other] # "Selected"
    ELSE Pending

\* Order::from(&filter)
order_from(filter) ==
    [date |-> CASE filter.date_option.kind = "DateIgnored" -> None
                [] filter.date_option.kind \in {"Since", "Between"} ->
                       Some(filter.date_option.start)
                [] filter.date_option.kind = "Until" ->
                       Some(filter.date_option.end),
     resource |-> first_selected_resource(filter),
     tags |-> IF filter.tag_option.kind = "Enabled"
              THEN selected_names(filter.tag_option.items)
              ELSE <<>>,
     state |-> first_selected_state(filter),
     visible |-> filter.visibility # "HiddenOnly",
     description |-> OrderDefault.description,
     amount |-> OrderDefault.amount]

FromFilter ==
    /\ call' = [op |-> "from", args |-> <<>>]
    /\ before' = FilterValue
    /\ ret' = Some(order_from(FilterValue))
    /\ UNCHANGED <<filter_vars, account_vars>>

\* Category lists handed to set: empty, one or two names, Selected or
\* Discarded, and one list holding a name twice.
FromTagLists ==
    { <<>>, <<Category("Car", "Discarded")>>,
      <<Category("Car", "Selected"), Category("Mum", "Selected")>>,
      <<Category("Car", "Discarded"), Category("Mum", "Selected")>>,
      <<Category("Car", "Discarded"), Category("Car", "Selected")>> }

FromResourceLists ==
    { <<>>, <<Category("Bank", "Discarded")>>,
      <<Category("Bank", "Discarded"), Category("Cash", "Selected")>>,
      <<Category("Bank", "Discarded"), Category("Bank", "Selected")>> }

NextFrom ==
    \/ \E range \in DateRanges : SetRange(range[1], range[2])
    \/ \E state \in TransactionState : ToggleState(state)
    \/ \E value \in {"VisibilityIgnored", "VisibleOnly", "HiddenOnly"} :
           SetVisibility(value)
    \/ \E categories \in FromTagLists : CategorySet("Tag", categories)
    \/ \E categories \in FromResourceLists : CategorySet("Resource", categories)
    \/ FromFilter

SpecFrom == Init /\ [][NextFrom]_vars

(***************************************************************************)
(* Properties of Filter::is_order_allowed.                                 *)
(***************************************************************************)
\* C1 (under Spec): with the tag and the resource filter both ignored,
\* is_order_allowed(order) is true iff the visibility admits the order, the
\* selector at the order's state is Selected and
\* date_option.is_date_allowed(order.date) is true; the default filter
\* admits exactly the visible orders.
AllowedWhenCategoriesIgnored ==
    (/\ call.op = "is_order_allowed"
     /\ tag_option = CategoryIgnored
     /\ resource_option = CategoryIgnored) =>
        LET order == call.args[1]
        IN  /\ ret = Some(/\ \/ visibility = "VisibilityIgnored"
                             \/ visibility = "VisibleOnly" /\ order.visible
                             \/ visibility = "HiddenOnly" /\ ~order.visible
                          /\ state_option[order.state] = "Selected"
                          /\ is_date_allowed(date_option, order.date))
            /\ FilterValue = FilterDefault => ret = Some(order.visible)

\* C1 witness: a HiddenOnly filter with a Between window and a discarded
\* state admits a hidden order dated on the last day of the window.
AllowedWhenCategoriesIgnoredWitness ==
    /\ call.op = "is_order_allowed"
    /\ tag_option = CategoryIgnored /\ resource_option = CategoryIgnored
    /\ visibility = "HiddenOnly"
    /\ ~call.args[1].visible
    /\ date_option.kind = "Between"
    /\ date_option.start < date_option.end
    /\ call.args[1].date = Some(date_option.end)
    /\ \E s \in TransactionState : state_option[s] = "Discarded"
    /\ ret = Some(TRUE)

\* C2 (under SpecTag): is_order_allowed decides the tag axis as
\* tag_option.with_each_selected(order.tags) does.
TagAxisIsWithEachSelected ==
    call.op = "is_order_allowed" =>
        LET order == call.args[1]
        IN  ret = Some(/\ visibility_match(FilterValue, order)
                       /\ state_match(FilterValue, order)
                       /\ date_match(FilterValue, order)
                       /\ with_each_selected(tag_option, order.tags)
                       /\ resource_match(FilterValue, order))

\* C3 (under SpecResource): is_order_allowed decides the resource axis as
\* resource_option.among_any_selected(order.resource) does; an order whose
\* resource is no entry of an Enabled resource filter is rejected.
ResourceAxisIsAmongAnySelected ==
    call.op = "is_order_allowed" =>
        LET order == call.args[1]
        IN  ret = Some(/\ visibility_match(FilterValue, order)
                       /\ state_match(FilterValue, order)
                       /\ date_match(FilterValue, order)
                       /\ tag_match(FilterValue, order)
                       /\ among_any_selected(resource_option, order.resource))

\* C10 (under Spec): when set_date_beginning or set_date_end is given a
\* string that does not parse as a date, or set_date_option two such
\* strings, the date filter is afterwards what it was before the call.
RejectedDateStringKeepsFilter ==
    /\ (/\ call.op \in {"set_date_beginning", "set_date_end"}
        /\ from_str(call.args[1]) = None) =>
           date_option = before.date_option
    /\ (/\ call.op = "set_date_option"
        /\ from_str(call.args[1]) = None
        /\ from_str(call.args[2]) = None) =>
           date_option = before.date_option

(***************************************************************************)
(* Properties of NaiveDateFilter, checked under SpecDate.                  *)
(***************************************************************************)
has_start(f) == f.kind \in {"Since", "Between"}
has_end(f) == f.kind \in {"Until", "Between"}

\* C4: whenever the date filter is Between(start, end), start <= end; a
\* window of zero length (start = end) is allowed.
BetweenIsOrdered ==
    date_option.kind = "Between" => date_option.start <= date_option.end

\* C4 witness: set_beginning on Until(e) with the date e itself gives the
\* zero-length window Between(e, e).
BetweenIsOrderedWitness ==
    /\ call.op = "set_beginning"
    /\ before.date_option.kind = "Until"
    /\ date_option.kind = "Between"
    /\ date_option.start = date_option.end

\* C5: after set_range the filter is a function of the two arguments alone:
\* (None, None) -> DateIgnored, (Some s, None) -> Since(s),
\* (None, Some e) -> Until(e), (Some s, Some e) -> Between(s, e) when e >= s
\* and Since(s) when e < s.
SetRangeOverwrites ==
    call.op = "set_range" =>
        LET s == call.args[1]
            e == call.args[2]
        IN  /\ (s = None /\ e = None) => date_option = DateIgnored
            /\ (s # None /\ e = None) => date_option = Since(s[1])
            /\ (s = None /\ e # None) => date_option = Until(e[1])
            /\ (s # None /\ e # None /\ e[1] >= s[1]) =>
                   date_option = Between(s[1], e[1])
            /\ (s # None /\ e # None /\ e[1] < s[1]) =>
                   date_option = Since(s[1])

\* C5 witness: set_range(Some s, Some e) with e < s on a filter that held a
\* Between window leaves Since(s).
SetRangeOverwritesWitness ==
    /\ call.op = "set_range"
    /\ before.date_option.kind = "Between"
    /\ call.args[1] # None /\ call.args[2] # None
    /\ call.args[2][1] < call.args[1][1]
    /\ date_option = Since(call.args[1][1])
    /\ before.date_option.start # call.args[1][1]

SetEndKeepsStart ==
    call.op = "set_end" =>
        IF has_start(before.date_option)
        THEN has_start(date_option)
             /\ date_option.start = before.date_option.start
        ELSE ~has_start(date_option)

\* C7 witness: set_end(Some d) on Between(s, e) with d < s leaves Since(s).
SetEndKeepsStartWitness ==
    /\ call.op = "set_end"
    /\ before.date_option.kind = "Between"
    /\ call.args[1] # None
    /\ call.args[1][1] < before.date_option.start
    /\ date_option = Since(before.date_option.start)

\* C8: set_beginning(None) turns Until(e) and Between(_, e) into Until(e)
\* and DateIgnored and Since(_) into DateIgnored; set_end(None) turns
\* Since(s) and Between(s, _) into Since(s) and DateIgnored and Until(_) into
\* DateIgnored.
ClearingKeepsOtherBoundary ==
    /\ (call.op = "set_beginning" /\ call.args[1] = None) =>
           date_option = IF has_end(before.date_option)
                         THEN Until(before.date_option.end)
                         ELSE DateIgnored
    /\ (call.op = "set_end" /\ call.args[1] = None) =>
           date_option = IF has_start(before.date_option)
                         THEN Since(before.date_option.start)
                         ELSE DateIgnored

\* C8 witness: set_end(None) on a Between window leaves Since(start).
ClearingKeepsOtherBoundaryWitness ==
    /\ call.op = "set_end"
    /\ call.args[1] = None
    /\ before.date_option.kind = "Between"
    /\ date_option = Since(before.date_option.start)

\* C9: is_date_allowed(d) is true under DateIgnored for every d, false for a
\* missing date under any other state, and otherwise true iff d >= s for
\* Since(s), d <= e for Until(e), s <= d <= e for Between(s, e).
IsDateAllowedMeaning ==
    call.op = "is_date_allowed" =>
        LET d == call.args[1]
            f == date_option
        IN  ret = Some(\/ f.kind = "DateIgnored"
                       \/ /\ f.kind = "Since" /\ d # None /\ d[1] >= f.start
                       \/ /\ f.kind = "Until" /\ d # None /\ d[1] <= f.end
                       \/ /\ f.kind = "Between" /\ d # None
                          /\ f.start <= d[1] /\ d[1] <= f.end)

\* C9 witness: under Between(s, e) with s < e the date e itself is allowed.
IsDateAllowedWitness ==
    /\ call.op = "is_date_allowed"
    /\ date_option.kind = "Between"
    /\ date_option.start < date_option.end
    /\ call.args[1] = Some(date_option.end)
    /\ ret = Some(TRUE)

(***************************************************************************)
(* Properties of CategoryFilter, checked under SpecCategoryEdit (add,      *)
(* remove, toggle from CategoryIgnored) and SpecCategory (all methods).    *)
(***************************************************************************)
\* The call just made was op on the tag filter.
category_call(op) == call.op = op /\ call.args[1] = "Tag"

\* Some entry of items carries name.
has_name(items, name) == \E i \in 1..Len(items) : items[i][1] = name

\* The least index of an entry of items carrying name.
first_named(items, name) ==
    CHOOSE i \in 1..Len(items) :
        /\ items[i][1] = name
        /\ \A j \in 1..(i - 1) : items[j][1] # name

\* C11: remove(name) on an Enabled filter containing name returns true; a
\* one-entry list becomes CategoryIgnored; a longer list stays Enabled with
\* the (first) entry of that name taken out and the others, selectors
\* included, in their original relative order.
RemoveFoundShrinksOrDisables ==
    (/\ category_call("remove")
     /\ before.tag_option.kind = "Enabled"
     /\ has_name(before.tag_option.items, call.args[2])) =>
        LET items == before.tag_option.items
            found == first_named(items, call.args[2])
        IN  /\ ret = Some(TRUE)
            /\ Len(items) = 1 => tag_option = CategoryIgnored
            /\ Len(items) > 1 =>
                   /\ tag_option.kind = "Enabled"
                   /\ tag_option.items =
                          SubSeq(items, 1, found - 1) \o
                          SubSeq(items, found + 1, Len(items))

\* C11 witness: a remove took the first of two same-named entries out of a
\* three-entry list, the two others keeping their order and selectors.
RemoveFoundShrinksOrDisablesWitness ==
    /\ category_call("remove")
    /\ ret = Some(TRUE)
    /\ before.tag_option.kind = "Enabled"
    /\ Len(before.tag_option.items) = 3
    /\ before.tag_option.items[1][1] = call.args[2]
    /\ before.tag_option.items[3][1] = call.args[2]
    /\ before.tag_option.items[1][2] # before.tag_option.items[3][2]
    /\ tag_option = Enabled(<<before.tag_option.items[2],
                              before.tag_option.items[3]>>)

\* C12: reached from CategoryIgnored by add, remove and toggle alone, the
\* filter is never Enabled with an empty list; after a remove that returned
\* true it is CategoryIgnored or Enabled with at least one entry.
NeverEnabledEmpty ==
    /\ tag_option.kind = "Enabled" => Len(tag_option.items) >= 1
    /\ (category_call("remove") /\ ret = Some(TRUE)) =>
           \/ tag_option = CategoryIgnored
           \/ tag_option.kind = "Enabled" /\ Len(tag_option.items) >= 1

\* C12 witness: remove took the only entry away and the filter went back to
\* CategoryIgnored.
NeverEnabledEmptyWitness ==
    /\ category_call("remove")
    /\ ret = Some(TRUE)
    /\ before.tag_option.kind = "Enabled"
    /\ Len(before.tag_option.items) = 1
    /\ tag_option = CategoryIgnored

\* The tag filter at the start of the call has no entry named name.
name_missing(name) ==
    \/ before.tag_option.kind = "CategoryIgnored"
    \/ ~has_name(before.tag_option.items, name)

\* C13: with the filter CategoryIgnored or holding no entry of the given
\* name, remove returns false, toggle returns nothing, and the filter is
\* exactly what it was before the call.
MissingCategoryIsNoOp ==
    /\ (category_call("remove") /\ name_missing(call.args[2])) =>
           ret = Some(FALSE) /\ FilterValue = before
    /\ (category_call("toggle") /\ name_missing(call.args[2])) =>
           ret = None /\ FilterValue = before

\* C13 witness: remove of a name absent from a non-empty Enabled list
\* returned false and left the list as it was.
MissingCategoryIsNoOpWitness ==
    /\ category_call("remove")
    /\ before.tag_option.kind = "Enabled"
    /\ Len(before.tag_option.items) >= 1
    /\ ~has_name(before.tag_option.items, call.args[2])
    /\ ret = Some(FALSE)
    /\ tag_option = before.tag_option

\* C14: set(new_items) leaves the filter Enabled with exactly new_items, in
\* the given order with the given selectors, whatever it held before.
SetReplacesContents ==
    category_call("set") => tag_option = Enabled(call.args[2])

\* C14 witness: set replaced a two-entry list by one entry that the list did
\* not hold, and nothing of the old list is left.
SetReplacesContentsWitness ==
    /\ category_call("set")
    /\ before.tag_option.kind = "Enabled"
    /\ Len(before.tag_option.items) = 2
    /\ Len(call.args[2]) = 1
    /\ \A i \in 1..2 : before.tag_option.items[i] # call.args[2][1]
    /\ tag_option = Enabled(call.args[2])

\* C15: add(category) appends the category as the last entry of an Enabled
\* filter, every existing entry keeping its place; on CategoryIgnored it
\* yields Enabled with that one category; a name already present is added
\* again.
AddAppends ==
    category_call("add") =>
        /\ before.tag_option.kind = "Enabled" =>
               /\ tag_option.kind = "Enabled"
               /\ Len(tag_option.items) = Len(before.tag_option.items) + 1
               /\ \A i \in 1..Len(before.tag_option.items) :
                      tag_option.items[i] = before.tag_option.items[i]
               /\ tag_option.items[Len(tag_option.items)] = call.args[2]
        /\ before.tag_option.kind = "CategoryIgnored" =>
               tag_option = Enabled(<<call.args[2]>>)

\* C15 witness: add of a name the list already held left two entries with
\* that name.
AddAppendsWitness ==
    /\ category_call("add")
    /\ before.tag_option.kind = "Enabled"
    /\ has_name(before.tag_option.items, call.args[2][1])
    /\ tag_option.kind = "Enabled"
    /\ \E i, j \in 1..Len(tag_option.items) :
           /\ i # j
           /\ tag_option.items[i][1] = call.args[2][1]
           /\ tag_option.items[j][1] = call.args[2][1]

\* C16: toggle(name) on an Enabled filter containing name flips the selector
\* of the first entry with that name and returns the new selector; names,
\* order, length and every other selector are unchanged.
ToggleFlipsFirstOnly ==
    (/\ category_call("toggle")
     /\ before.tag_option.kind = "Enabled"
     /\ has_name(before.tag_option.items, call.args[2])) =>
        LET items == before.tag_option.items
            found == first_named(items, call.args[2])
        IN  /\ tag_option.kind = "Enabled"
            /\ Len(tag_option.items) = Len(items)
            /\ \A i \in 1..Len(items) : tag_option.items[i][1] = items[i][1]
            /\ \A i \in 1..Len(items) :
                   i # found => tag_option.items[i][2] = items[i][2]
            /\ tag_option.items[found][2] \in {"Selected", "Discarded"}
            /\ tag_option.items[found][2] # items[found][2]
            /\ ret = Some(tag_option.items[found][2])

\* C16 witness: with the name held twice, toggle flipped the first entry to
\* Selected and left the second one Discarded.
ToggleFlipsFirstOnlyWitness ==
    /\ category_call("toggle")
    /\ before.tag_option.kind = "Enabled"
    /\ Len(before.tag_option.items) >= 2
    /\ before.tag_option.items[1] = <<call.args[2], "Discarded">>
    /\ before.tag_option.items[2] = <<call.args[2], "Discarded">>
    /\ tag_option.items[1] = <<call.args[2], "Selected">>
    /\ tag_option.items[2] = <<call.args[2], "Discarded">>
    /\ ret = Some("Selected")

\* C17: among_any_selected(value) is true under CategoryIgnored; under
\* Enabled a missing value passes iff every entry is Discarded, and
\* Some(name) passes iff some entry with that name is Selected.
AmongAnySelectedMeaning ==
    category_call("among_any_selected") =>
        LET value == call.args[2]
        IN  ret = Some(\/ tag_option.kind = "CategoryIgnored"
                       \/ /\ tag_option.kind = "Enabled"
                          /\ value = None
                          /\ \A i \in 1..Len(tag_option.items) :
                                 tag_option.items[i][2] = "Discarded"
                       \/ /\ tag_option.kind = "Enabled"
                          /\ value # None
                          /\ \E i \in 1..Len(tag_option.items) :
                                 tag_option.items[i] = <<value[1], "Selected">>)

\* C17 witness: a name absent from a non-empty Enabled filter is rejected.
AmongAnySelectedWitness ==
    /\ category_call("among_any_selected")
    /\ tag_option.kind = "Enabled"
    /\ Len(tag_option.items) >= 1
    /\ call.args[2] # None
    /\ ~has_name(tag_option.items, call.args[2][1])
    /\ ret = Some(FALSE)

\* C18: with_each_selected(names) is true under CategoryIgnored; under
\* Enabled it is true iff every Selected entry has its name in the list,
\* whatever the Discarded entries and the other names of the list are.
WithEachSelectedMeaning ==
    category_call("with_each_selected") =>
        LET names == call.args[2]
        IN  ret = Some(\/ tag_option.kind = "CategoryIgnored"
                       \/ /\ tag_option.kind = "Enabled"
                          /\ \A i \in 1..Len(tag_option.items) :
                                 tag_option.items[i][2] = "Selected" =>
                                     \E k \in 1..Len(names) :
                                         names[k] = tag_option.items[i][1])

\* C18 witness: two Selected entries of different names, a list holding
\* only one of the names: not admitted.
WithEachSelectedWitness ==
    /\ category_call("with_each_selected")
    /\ tag_option.kind = "Enabled"
    /\ Len(tag_option.items) = 2
    /\ tag_option.items[1][2] = "Selected"
    /\ tag_option.items[2][2] = "Selected"
    /\ tag_option.items[1][1] # tag_option.items[2][1]
    /\ Len(call.args[2]) = 1
    /\ ret = Some(FALSE)

(***************************************************************************)
(* The tag axis of Filter::is_order_allowed, checked under SpecTag.        *)
(***************************************************************************)
\* is_order_allowed was just asked about an order that every axis but the
\* tag axis lets through, with the tag filter Enabled: the answer is the
\* tag axis's.
tag_axis_decides ==
    /\ call.op = "is_order_allowed"
    /\ tag_option.kind = "Enabled"
    /\ visibility_match(FilterValue, call.args[1])
    /\ state_match(FilterValue, call.args[1])
    /\ date_match(FilterValue, call.args[1])
    /\ resource_match(FilterValue, call.args[1])

\* Some entry of the tag filter is <<tag, selector>>.
flagged(tag, selector) ==
    \E i \in 1..Len(tag_option.items) : tag_option.items[i] = <<tag, selector>>

\* The first entry of the tag filter named tag carries selector.
first_flagged(tag, selector) ==
    /\ has_name(tag_option.items, tag)
    /\ tag_option.items[first_named(tag_option.items, tag)][2] = selector

\* C19 as stated: with an Enabled tag filter the order is rejected on the
\* tag axis iff it has a tag and each of its tags is an entry of the filter
\* flagged Discarded; an order with no tag, with a tag absent from the
\* filter or with a tag flagged Selected passes.
TagAxisRejectsIffAllDiscarded ==
    tag_axis_decides =>
        LET tags == call.args[1].tags
        IN  /\ ret = Some(FALSE) <=>
                   /\ tags # <<>>
                   /\ \A t \in 1..Len(tags) : flagged(tags[t], "Discarded")
            /\ (\/ tags = <<>>
                \/ \E t \in 1..Len(tags) : ~has_name(tag_option.items, tags[t])
                \/ \E t \in 1..Len(tags) : flagged(tags[t], "Selected")) =>
                   ret = Some(TRUE)

\* C19 amended: the flag of a tag is that of the first filter entry with its
\* name. The order is rejected on the tag axis iff it has a tag and each of
\* its tags has a first entry flagged Discarded; it passes with no tag, with
\* a tag absent from the filter, or with a tag whose first entry is Selected.
TagAxisRejectsIffAllFirstDiscarded ==
    tag_axis_decides =>
        LET tags == call.args[1].tags
        IN  /\ ret = Some(FALSE) <=>
                   /\ tags # <<>>
                   /\ \A t \in 1..Len(tags) : first_flagged(tags[t], "Discarded")
            /\ (\/ tags = <<>>
                \/ \E t \in 1..Len(tags) : ~has_name(tag_option.items, tags[t])
                \/ \E t \in 1..Len(tags) : first_flagged(tags[t], "Selected")) =>
                   ret = Some(TRUE)

\* C19 witness: the filter holds the order's only tag twice, Selected first
\* and Discarded second, and the order passes.
TagAxisFirstEntryWitness ==
    /\ tag_axis_decides
    /\ Len(call.args[1].tags) = 1
    /\ Len(tag_option.items) = 2
    /\ tag_option.items[1] = <<call.args[1].tags[1], "Selected">>
    /\ tag_option.items[2] = <<call.args[1].tags[1], "Discarded">>
    /\ ret = Some(TRUE)

(***************************************************************************)
(* Properties of OrderListExt::apply_filter, checked under SpecApply.      *)
(***************************************************************************)
\* The 0-based indices of the orders of the list that the filter admits.
admitted_indices(orders) ==
    {i - 1 : i \in {k \in 1..Len(orders) : is_order_allowed(FilterValue, orders[k])}}

\* C20: for every ordering and direction apply_filter returns, and the
\* pairs returned hold every admitted index exactly once and no other, each
\* paired with the order at that index of the input list.
ApplyFilterReturnsAdmitted ==
    call.op = "apply_filter" =>
        LET orders == call.args[1]
            result == unwrap(ret)
        IN  /\ ~result.panic
            /\ {result.pairs[k][1] : k \in 1..Len(result.pairs)} =
                   admitted_indices(orders)
            /\ Len(result.pairs) = Cardinality(admitted_indices(orders))
            /\ \A k \in 1..Len(result.pairs) :
                   result.pairs[k][2] = orders[result.pairs[k][1] + 1]

\* apply_filter was called and returned its list of pairs.
apply_returned == call.op = "apply_filter" /\ ~unwrap(ret).panic

\* The key of pair a is at most the key of pair b under ordering: an index,
\* a date with a missing date below every date, a lower-cased description,
\* or an amount.
key_le(ordering, a, b) ==
    CASE ordering = "ById" -> a[1] <= b[1]
      [] ordering = "ByDate" ->
             \/ a[2].date = None
             \/ a[2].date # None /\ b[2].date # None
                /\ unwrap(a[2].date) <= unwrap(b[2].date)
      [] ordering = "ByDescription" ->
             cmp_str(to_lowercase(a[2].description),
                     to_lowercase(b[2].description)) \in {"Less", "Equal"}
      [] ordering = "ByAmount" ->
             /\ ~a[2].amount.nan /\ ~b[2].amount.nan
             /\ a[2].amount.value <= b[2].amount.value

\* The two pairs have the same key under ordering.
key_eq(ordering, a, b) == key_le(ordering, a, b) /\ key_le(ordering, b, a)

\* C21: the pairs apply_filter returns are ordered by the key of the
\* ordering: with Ascending each pair's key is <= the next pair's key, with
\* Descending it is >= the next pair's key.
ApplyFilterSorted ==
    apply_returned =>
        LET pairs == unwrap(ret).pairs
            ordering == call.args[2]
        IN  \A k \in 1..(Len(pairs) - 1) :
                IF call.args[3] = "Ascending"
                THEN key_le(ordering, pairs[k], pairs[k + 1])
                ELSE key_le(ordering, pairs[k + 1], pairs[k])

\* C21 witness: a Descending ByDate result of three pairs in which a dated
\* order precedes the undated one, which came first in the input.
ApplyFilterSortedWitness ==
    /\ apply_returned
    /\ call.args[2] = "ByDate"
    /\ call.args[3] = "Descending"
    /\ Len(unwrap(ret).pairs) = 3
    /\ call.args[1][1].date = None
    /\ unwrap(ret).pairs[1][2].date # None
    /\ unwrap(ret).pairs[3] = <<0, call.args[1][1]>>

\* C22: two returned pairs with equal keys stand in their original index
\* order, in the Ascending and in the Descending direction alike.
ApplyFilterStable ==
    apply_returned =>
        LET pairs == unwrap(ret).pairs
        IN  \A k, l \in 1..Len(pairs) :
                (k < l /\ key_eq(call.args[2], pairs[k], pairs[l])) =>
                    pairs[k][1] < pairs[l][1]

\* C22 witness: a Descending ByDescription result where "b" (index 0) and
\* "B" (a later index) tie and stay in index order in front of "a": not the
\* Ascending result read backwards.
ApplyFilterStableWitness ==
    /\ apply_returned
    /\ call.args[2] = "ByDescription"
    /\ call.args[3] = "Descending"
    /\ Len(unwrap(ret).pairs) = 3
    /\ unwrap(ret).pairs[1][2].description = <<98>>
    /\ unwrap(ret).pairs[2][2].description = <<66>>
    /\ unwrap(ret).pairs[1][1] < unwrap(ret).pairs[2][1]
    /\ unwrap(ret).pairs[3][2].description = <<97>>

\* C23: apply_filter with ordering ByAmount returns a result for every list
\* of amounts, NaN included: the comparison never panics.
ByAmountNeverPanics ==
    (call.op = "apply_filter" /\ call.args[2] = "ByAmount") =>
        ~unwrap(ret).panic

(***************************************************************************)
(* Properties of calculate_category_amount, checked under SpecAmount.      *)
(***************************************************************************)
\* The indices of the orders that the last calculate_category_amount call
\* counts: visible, carrying the category, date allowed by the date filter
\* built from the range.
counted ==
    {i \in 1..Len(account_orders) :
        LET order == account_orders[i]
        IN  /\ order.visible
            /\ \/ call.args[1] = "Resource" /\ order.resource = Some(call.args[2])
               \/ call.args[1] = "Tag" /\
                  \E t \in 1..Len(order.tags) : order.tags[t] = call.args[2]
            /\ is_date_allowed(set_range(DateIgnored, call.args[3]), order.date)}

\* The sum of the amounts of the orders with an index in S.
RECURSIVE sum_amounts(_)
sum_amounts(S) ==
    IF S = {}
    THEN 0
    ELSE LET i == CHOOSE x \in S : TRUE
         IN  account_orders[i].amount.value + sum_amounts(S \ {i})

\* C24: calculate_category_amount returns nothing iff no order is counted;
\* otherwise current, pending and in_progress are the sums of the amounts of
\* the counted Done, Pending and InProgress orders and expected is the sum
\* over all counted orders.
CategoryAmountIsSumOfCounted ==
    call.op = "calculate_category_amount" =>
        /\ ret = None <=> counted = {}
        /\ ret # None =>
               /\ unwrap(ret).current = Amount(sum_amounts(
                      {i \in counted : account_orders[i].state = Done}))
               /\ unwrap(ret).pending = Amount(sum_amounts(
                      {i \in counted : account_orders[i].state = Pending}))
               /\ unwrap(ret).in_progress = Amount(sum_amounts(
                      {i \in counted : account_orders[i].state = InProgress}))
               /\ unwrap(ret).expected = Amount(sum_amounts(counted))

\* C24 witness: of three orders one is hidden and two are counted, a Done
\* and a Pending one whose amounts cancel: a result with expected 0.
CategoryAmountWitness ==
    /\ call.op = "calculate_category_amount"
    /\ Len(account_orders) = 3
    /\ Cardinality(counted) = 2
    /\ \E i \in 1..3 : ~account_orders[i].visible
    /\ ret # None
    /\ unwrap(ret).current = Amount(2)
    /\ unwrap(ret).pending = Amount(-2)
    /\ unwrap(ret).expected = Amount(0)

(***************************************************************************)
(* Property of ItemSelector::toggle, checked under SpecSelector.           *)
(***************************************************************************)
\* C25: toggle turns Selected into Discarded and Discarded into Selected,
\* and a second toggle restores the selector: toggle(toggle(s)) = s.  Every
\* toggle_state call leaves the state's selector changed, one more toggle
\* away from what it was.
ToggleIsInvolution ==
    /\ toggle_selector("Selected") = "Discarded"
    /\ toggle_selector("Discarded") = "Selected"
    /\ \A s \in Selectors : toggle_selector(toggle_selector(s)) = s
    /\ call.op = "toggle_state" =>
           /\ state_option[call.args[1]] \in Selectors
           /\ state_option[call.args[1]] # before.state_option[call.args[1]]
           /\ toggle_selector(state_option[call.args[1]]) =
                  before.state_option[call.args[1]]

\* C25 witness: a state that starts Selected was toggled to Discarded and
\* then toggled again: it is Selected as at the start.
ToggleIsInvolutionWitness ==
    /\ call.op = "toggle_state"
    /\ before.state_option[call.args[1]] = "Discarded"
    /\ state_option[call.args[1]] = "Selected"
    /\ state_option = FilterDefault.state_option

(***************************************************************************)
(* Properties of ExclusiveItemExt, checked under SpecExclusive.            *)
(***************************************************************************)
\* The key is made of whitespace only (and of at least one character).
whitespace_only(key) ==
    key # <<>> /\ \A i \in 1..Len(key) : key[i] \in {" ", "\t", "\n"}

\* C26: the list never holds a name twice, an empty name or a name of
\* whitespace only; an add of such a name is refused with ExistingItem,
\* EmptyArgument or IncorrectArgument, a remove of an absent name with
\* UnknownItem, and a refused call leaves the list as it was.
ExclusiveListIsClean ==
    /\ \A i, j \in 1..Len(account_tags) :
           i # j => account_tags[i] # account_tags[j]
    /\ \A i \in 1..Len(account_tags) :
           account_tags[i] # <<>> /\ ~whitespace_only(account_tags[i])
    /\ call.op = "add_tag" =>
           LET key == call.args[1]
               held == \E i \in 1..Len(account_before.tags) :
                           account_before.tags[i] = key
           IN  /\ key = <<>> => ret = Some("EmptyArgument")
               /\ whitespace_only(key) => ret = Some("IncorrectArgument")
               /\ held => ret = Some("ExistingItem")
               /\ (key # <<>> /\ ~whitespace_only(key) /\ ~held) =>
                      ret = None /\ account_tags = Append(account_before.tags, key)
    /\ call.op = "remove_tag" =>
           ((\A i \in 1..Len(account_before.tags) :
                 account_before.tags[i] # call.args[1])
            => ret = Some("UnknownItem"))
    /\ (call.op \in {"add_tag", "remove_tag"} /\ ret # None) =>
           account_tags = account_before.tags

\* C26 witness: with two names in the list, adding one of them again is
\* refused with ExistingItem and the list stays as it was.
ExclusiveListIsCleanWitness ==
    /\ call.op = "add_tag"
    /\ Len(account_before.tags) = 2
    /\ account_before.tags[2] = call.args[1]
    /\ ret = Some("ExistingItem")
    /\ account_tags = account_before.tags

(***************************************************************************)
(* The Filter beside an Account, checked under SpecAccountFilter.          *)
(***************************************************************************)
\* C27: after a successful Account::remove_tag the tag filter holds no
\* entry with the removed name, and after a successful
\* Account::remove_resource the resource filter holds none either.
RemovalReachesFilter ==
    /\ (call.op = "remove_tag" /\ ret = None /\ tag_option.kind = "Enabled") =>
           ~has_name(tag_option.items, call.args[1])
    /\ (call.op = "remove_resource" /\ ret = None
        /\ resource_option.kind = "Enabled") =>
           ~has_name(resource_option.items, call.args[1])

(***************************************************************************)
(* Properties of the Account's orders, checked under SpecAccount.          *)
(***************************************************************************)
\* The list without its entries equal to item.
RECURSIVE without(_, _)
without(list, item) ==
    IF list = <<>>
    THEN <<>>
    ELSE IF Head(list) = item
         THEN without(Tail(list), item)
         ELSE <<Head(list)>> \o without(Tail(list), item)

\* C28: every tag of every order is a registered tag and appears once in
\* the order; every order's resource is absent or registered; a successful
\* remove_tag or remove_resource strips the name from every order and a
\* failed one (UnknownItem) changes no order.
OrdersFollowRegistry ==
    /\ \A i \in 1..Len(account_orders) :
           LET order == account_orders[i]
           IN  /\ \A t \in 1..Len(order.tags) :
                      \E k \in 1..Len(account_tags) :
                          account_tags[k] = order.tags[t]
               /\ \A t, u \in 1..Len(order.tags) :
                      t # u => order.tags[t] # order.tags[u]
               /\ \/ order.resource = None
                  \/ \E k \in 1..Len(account_resources) :
                         order.resource = Some(account_resources[k])
    /\ (call.op = "remove_tag" /\ ret = None) =>
           /\ Len(account_orders) = Len(account_before.orders)
           /\ \A i \in 1..Len(account_orders) :
                  account_orders[i] =
                      [account_before.orders[i] EXCEPT
                           !.tags = without(account_before.orders[i].tags,
                                            call.args[1])]
    /\ (call.op = "remove_resource" /\ ret = None) =>
           /\ Len(account_orders) = Len(account_before.orders)
           /\ \A i \in 1..Len(account_orders) :
                  /\ account_orders[i].resource # Some(call.args[1])
                  /\ account_before.orders[i].resource # Some(call.args[1]) =>
                         account_orders[i] = account_before.orders[i]
    /\ (call.op \in {"remove_tag", "remove_resource"}
        /\ ret = Some("UnknownItem")) =>
           account_orders = account_before.orders

\* C28 witness: remove_tag succeeded on an account with two orders, one of
\* which held the removed tag in front of another tag and now holds only
\* the other one.
OrdersFollowRegistryWitness ==
    /\ call.op = "remove_tag"
    /\ ret = None
    /\ Len(account_orders) = 2
    /\ \E i \in 1..2 :
           /\ Len(account_before.orders[i].tags) = 2
           /\ account_before.orders[i].tags[1] = call.args[1]
           /\ account_orders[i].tags = <<account_before.orders[i].tags[2]>>

(***************************************************************************)
(* Property of Order::from(&Filter), checked under SpecFrom.               *)
(***************************************************************************)
\* No name is held twice by the category filter.
no_duplicate_names(option) ==
    option.kind = "Enabled" =>
        \A i, j \in 1..Len(option.items) :
            i # j => option.items[i][1] # option.items[j][1]

\* C29: for a filter with a Selected transaction state and no name held
\* twice in its tag or resource filter, the order built by Order::from is
\* admitted by the filter; its date is the filter's start (its end for
\* Until), its state the first Selected one, and it is hidden only under
\* HiddenOnly.
SuggestedOrderIsAllowed ==
    (/\ call.op = "from"
     /\ \E state \in TransactionState : state_option[state] = "Selected"
     /\ no_duplicate_names(tag_option)
     /\ no_duplicate_names(resource_option)) =>
        LET order == unwrap(ret)
        IN  /\ is_order_allowed(FilterValue, order)
            /\ order.visible <=> visibility # "HiddenOnly"
            /\ state_option[order.state] = "Selected"
            /\ \A other \in TransactionState :
                   other < order.state => state_option[other] = "Discarded"
            /\ date_option.kind = "DateIgnored" => order.date = None
            /\ has_start(date_option) => order.date = Some(date_option.start)
            /\ date_option.kind = "Until" => order.date = Some(date_option.end)
            /\ tag_option.kind = "Enabled" =>
                   \A name \in {"Car", "Mum"} :
                       flagged(name, "Selected") <=>
                           \E t \in 1..Len(order.tags) : order.tags[t] = name
            /\ (order.resource # None) =>
                   \E i \in 1..Len(resource_option.items) :
                       resource_option.items[i] =
                           <<unwrap(order.resource), "Selected">>

\* C29 witness: under HiddenOnly, a Between window, Pending discarded, a
\* Discarded and a Selected tag and a Discarded resource in front of the
\* Selected one, the order built is admitted.
SuggestedOrderIsAllowedWitness ==
    /\ call.op = "from"
    /\ visibility = "HiddenOnly"
    /\ date_option.kind = "Between"
    /\ state_option[Pending] = "Discarded"
    /\ tag_option = Enabled(<<Category("Car", "Discarded"),
                              Category("Mum", "Selected")>>)
    /\ resource_option = Enabled(<<Category("Bank", "Discarded"),
                                   Category("Cash", "Selected")>>)
    /\ unwrap(ret).tags = <<"Mum">>
    /\ unwrap(ret).resource = Some("Cash")
    /\ ~unwrap(ret).visible
    /\ is_order_allowed(FilterValue, unwrap(ret))

(***************************************************************************)
(* set_beginning followed by set_end, checked under SpecDate.              *)
(***************************************************************************)
\* Every value of the enum NaiveDateFilter over the days of the model.
DateFilters ==
    {DateIgnored} \cup {Since(d) : d \in Days} \cup {Until(d) : d \in Days}
                  \cup {Between(d, e) : d \in Days, e \in Days}

\* C30: from every date-filter state and for every pair (a, b) of optional
\* dates, set_beginning(a) followed by set_end(b) leaves the state that
\* set_range(a, b) produces.  Stated for the operators from every value,
\* and for every set_end call made on a state that set_beginning(a) yields.
BeginningThenEndIsRange ==
    /\ \A p \in DateFilters, a \in OptionDays, b \in OptionDays :
           set_end(set_beginning(p, a), b) = set_range(p, <<a, b>>)
    /\ call.op = "set_end" =>
           \A p \in DateFilters, a \in OptionDays :
               set_beginning(p, a) = before.date_option =>
                   date_option = set_range(p, <<a, call.args[1]>>)

\* C30 witness: set_end(b) was called on the Since(a) state that
\* set_beginning(a) makes of an Until filter ending before a, and the
\* result is the Between(a, b) window of set_range(a, b).
BeginningThenEndIsRangeWitness ==
    /\ call.op = "set_end"
    /\ before.date_option.kind = "Since"
    /\ date_option.kind = "Between"
    /\ \E p \in DateFilters :
           /\ p.kind = "Until"
           /\ p.end < before.date_option.start
           /\ set_beginning(p, Some(before.date_option.start)) = before.date_option
           /\ date_option = set_range(p, <<Some(before.date_option.start),
                                          call.args[1]>>)

====
